---- MODULE Spec2Model ----
(***************************************************************************)
(* Model of the chess-llm-lab backend: the request handlers of             *)
(* backend/src/api/endpoints.py (router) and backend/src/main.py (app),    *)
(* the credential holders of backend/src/core/config.py and main.py, and   *)
(* the boundary behaviour of the chess rules library and of the provider   *)
(* client that the handlers rely on.                                       *)
(***************************************************************************)
EXTENDS Integers, Sequences, FiniteSets, TLC

(***************************************************************************)
(* Bounds                                                                  *)
(***************************************************************************)
\* number of distinct non-empty credentials that callers / the environment use
NumKeys == 2

(***************************************************************************)
(* Python values                                                           *)
(***************************************************************************)
None == "<None>"
EmptyStr == ""
Keys == {"sk-" \o ToString(i) : i \in 1..NumKeys}
\* message texts a provider error may carry
ErrTexts == {"Incorrect API key provided: sk-1", "Connection error."}
\* values of OPENAI_API_KEY in the environment: unset, empty, or a credential
\* (credentials are interchangeable, so the configured one is the first)
EnvKeys == {None, EmptyStr, "sk-1"}

\* bool(x) for x a str or None
Truthy(x) == x # None /\ x # EmptyStr

\* str.startswith(prefix)
startswith(s, p) == Len(s) >= Len(p) /\ SubSeq(s, 1, Len(p)) = p

\* x in s, for strings
contains(s, x) == \E i \in 1..(Len(s) - Len(x) + 1) : SubSeq(s, i, i + Len(x) - 1) = x

\* code point order of the characters of model identifiers
CharOrder == "-.0123456789abcdefghijklmnopqrstuvwxyz"
ord(c) == CHOOSE i \in 1..Len(CharOrder) : SubSeq(CharOrder, i, i) = c

\* a < b for strings
RECURSIVE str_lt(_, _)
str_lt(a, b) ==
    IF Len(b) = 0 THEN FALSE
    ELSE IF Len(a) = 0 THEN TRUE
    ELSE IF Head(a) = Head(b) THEN str_lt(Tail(a), Tail(b))
    ELSE ord(Head(a)) < ord(Head(b))

\* sorted(seq) for a sequence of strings
RECURSIVE sorted(_)
sorted(seq) ==
    IF Len(seq) = 0 THEN <<>>
    ELSE LET rest == sorted(Tail(seq))
             x == Head(seq)
             k == Cardinality({i \in 1..Len(rest) : str_lt(rest[i], x)})
         IN SubSeq(rest, 1, k) \o <<x>> \o SubSeq(rest, k + 1, Len(rest))

(***************************************************************************)
(* Chess rules library (python-chess) at the boundary the handlers use     *)
(***************************************************************************)
FILE_NAMES == <<"a", "b", "c", "d", "e", "f", "g", "h">>
RANK_NAMES == <<"1", "2", "3", "4", "5", "6", "7", "8">>
SQUARE_NAMES == {FILE_NAMES[f] \o RANK_NAMES[r] : f \in 1..8, r \in 1..8}
PIECE_SYMBOLS == {"p", "n", "b", "r", "q", "k"}
WhiteSymbols == {"P", "N", "B", "R", "Q", "K"}

square_file(sq) == CHOOSE f \in 1..8 : SubSeq(sq, 1, 1) = FILE_NAMES[f]

InvalidMoveError == [error |-> "InvalidMoveError"]
NullMove == [from_square |-> "00", to_square |-> "00", promotion |-> None]

\* chess.Move.from_uci
from_uci(uci) ==
    IF uci = "0000" THEN NullMove
    ELSE IF Len(uci) \in {4, 5}
    THEN LET f == SubSeq(uci, 1, 2)
             t == SubSeq(uci, 3, 4)
             p == IF Len(uci) = 5 THEN SubSeq(uci, 5, 5) ELSE None
         IN IF f \notin SQUARE_NAMES \/ t \notin SQUARE_NAMES
               \/ (p # None /\ p \notin PIECE_SYMBOLS)
            THEN InvalidMoveError
            ELSE IF f = t THEN InvalidMoveError
            ELSE [from_square |-> f, to_square |-> t, promotion |-> p]
    ELSE InvalidMoveError

\* chess.Move.uci
uci_of(m) ==
    IF m = NullMove THEN "0000"
    ELSE m.from_square \o m.to_square \o (IF m.promotion = None THEN "" ELSE m.promotion)

\* a board placement given rank by rank, rank 8 first, "." an empty square
PiecesOf(ranks) ==
    LET at(sq) == ranks[9 - (CHOOSE r \in 1..8 : SubSeq(sq, 2, 2) = RANK_NAMES[r])][square_file(sq)]
    IN [sq \in {s \in SQUARE_NAMES : at(s) # "."} |-> at(sq)]

EmptyRank == <<".", ".", ".", ".", ".", ".", ".", ".">>
WhitePawns == <<"P", "P", "P", "P", "P", "P", "P", "P">>
BlackPawns == <<"p", "p", "p", "p", "p", "p", "p", "p">>
WhiteBack == <<"R", "N", "B", "Q", "K", "B", "N", "R">>
BlackBack == <<"r", "n", "b", "q", "k", "b", "n", "r">>

Mv(f, t) == [from_square |-> f, to_square |-> t, promotion |-> None]

\* the positions requests carry, as position text
StartFen == "rnbqkbnr/pppppppp/8/8/8/8/PPPPPPPP/RNBQKBNR w KQkq - 0 1"
AfterE4Fen == "rnbqkbnr/pppppppp/8/8/4P3/8/PPPP1PPP/RNBQKBNR b KQkq e3 0 1"
FoolsMateFen == "rnb1kbnr/pppp1ppp/8/4p3/6Pq/5P2/PPPPP2P/RNBQKBNR w KQkq - 1 3"
StalemateFen == "k7/8/1K6/8/8/8/8/8 b - - 0 1"
QueenStalemateFen == "7k/5Q2/6K1/8/8/8/8/8 b - - 0 1"
BareKingsFen == "8/8/8/4k3/8/8/4K3/8 w - - 0 1"
SeventyFiveFen == "rnbqkbnr/pppppppp/8/8/8/8/PPPPPPPP/RNBQKBNR w KQkq - 150 80"
InvalidFen == "invalid-fen-string"
Fens == {StartFen, AfterE4Fen, FoolsMateFen, StalemateFen, QueenStalemateFen,
         BareKingsFen, SeventyFiveFen, InvalidFen}

ValueError == [error |-> "ValueError"]

StartBoard ==
    [pieces |-> PiecesOf(<<BlackBack, BlackPawns, EmptyRank, EmptyRank,
                           EmptyRank, EmptyRank, WhitePawns, WhiteBack>>),
     turn |-> "w", halfmove_clock |-> 0, check |-> FALSE,
     legal_moves |->
        {Mv(FILE_NAMES[f] \o "2", FILE_NAMES[f] \o r) : f \in 1..8, r \in {"3", "4"}}
        \cup {Mv("b1", "a3"), Mv("b1", "c3"), Mv("g1", "f3"), Mv("g1", "h3")}]

AfterE4Board ==
    [pieces |-> PiecesOf(<<BlackBack, BlackPawns, EmptyRank, EmptyRank,
                           <<".", ".", ".", ".", "P", ".", ".", ".">>, EmptyRank,
                           <<"P", "P", "P", "P", ".", "P", "P", "P">>, WhiteBack>>),
     turn |-> "b", halfmove_clock |-> 0, check |-> FALSE,
     legal_moves |->
        {Mv(FILE_NAMES[f] \o "7", FILE_NAMES[f] \o r) : f \in 1..8, r \in {"6", "5"}}
        \cup {Mv("b8", "a6"), Mv("b8", "c6"), Mv("g8", "f6"), Mv("g8", "h6")}]

FoolsMateBoard ==
    [pieces |-> PiecesOf(<<<<"r", "n", "b", ".", "k", "b", "n", "r">>,
                           <<"p", "p", "p", "p", ".", "p", "p", "p">>,
                           EmptyRank,
                           <<".", ".", ".", ".", "p", ".", ".", ".">>,
                           <<".", ".", ".", ".", ".", ".", "P", "q">>,
                           <<".", ".", ".", ".", ".", "P", ".", ".">>,
                           <<"P", "P", "P", "P", "P", ".", ".", "P">>,
                           WhiteBack>>),
     turn |-> "w", halfmove_clock |-> 1, check |-> TRUE, legal_moves |-> {}]

StalemateBoard ==
    [pieces |-> PiecesOf(<<<<"k", ".", ".", ".", ".", ".", ".", ".">>, EmptyRank,
                           <<".", "K", ".", ".", ".", ".", ".", ".">>, EmptyRank,
                           EmptyRank, EmptyRank, EmptyRank, EmptyRank>>),
     turn |-> "b", halfmove_clock |-> 0, check |-> FALSE, legal_moves |-> {}]

QueenStalemateBoard ==
    [pieces |-> PiecesOf(<<<<".", ".", ".", ".", ".", ".", ".", "k">>,
                           <<".", ".", ".", ".", ".", "Q", ".", ".">>,
                           <<".", ".", ".", ".", ".", ".", "K", ".">>, EmptyRank,
                           EmptyRank, EmptyRank, EmptyRank, EmptyRank>>),
     turn |-> "b", halfmove_clock |-> 0, check |-> FALSE, legal_moves |-> {}]

BareKingsBoard ==
    [pieces |-> PiecesOf(<<EmptyRank, EmptyRank, EmptyRank,
                           <<".", ".", ".", ".", "k", ".", ".", ".">>, EmptyRank,
                           EmptyRank, <<".", ".", ".", ".", "K", ".", ".", ".">>, EmptyRank>>),
     turn |-> "w", halfmove_clock |-> 0, check |-> FALSE,
     legal_moves |-> {Mv("e2", t) : t \in {"d1", "e1", "f1", "d2", "f2", "d3", "e3", "f3"}}]

\* chess.Board(fen): the parsed position, or ValueError
Board(fen) ==
    CASE fen = StartFen -> StartBoard
      [] fen = AfterE4Fen -> AfterE4Board
      [] fen = FoolsMateFen -> FoolsMateBoard
      [] fen = StalemateFen -> StalemateBoard
      [] fen = QueenStalemateFen -> QueenStalemateBoard
      [] fen = BareKingsFen -> BareKingsBoard
      [] fen = SeventyFiveFen -> [StartBoard EXCEPT !.halfmove_clock = 150]
      [] OTHER -> ValueError

is_checkmate(board) == board.check /\ board.legal_moves = {}
is_stalemate(board) == ~board.check /\ board.legal_moves = {}
\* only kings, or kings and a single minor piece
is_insufficient_material(board) ==
    LET others == {sq \in DOMAIN board.pieces : board.pieces[sq] \notin {"k", "K"}}
    IN \/ others = {}
       \/ /\ Cardinality(others) = 1
          /\ \A sq \in others : board.pieces[sq] \in {"n", "N", "b", "B"}
is_seventyfive_moves(board) == board.halfmove_clock >= 150 /\ board.legal_moves # {}

\* variant of is_game_over: stalemate is not counted as a finished game
is_game_over_no_stalemate(board) ==
    \/ is_checkmate(board)
    \/ is_insufficient_material(board)
    \/ is_seventyfive_moves(board)

\* chess.Board.is_game_over() on a freshly parsed position (no move stack)
is_game_over(board) ==
    \/ is_checkmate(board)
    \/ is_insufficient_material(board)
    \/ is_stalemate(board)
    \/ is_seventyfive_moves(board)

AssertionError == "<AssertionError>"

\* chess.piece_symbol(piece_type).upper()
upper(sym) ==
    CASE sym \in {"p", "P"} -> "P" [] sym \in {"n", "N"} -> "N" [] sym \in {"b", "B"} -> "B"
      [] sym \in {"r", "R"} -> "R" [] sym \in {"q", "Q"} -> "Q" [] sym \in {"k", "K"} -> "K"

\* chess.Board.san(move), without the check suffix: no move of the positions
\* above gives check
san(board, move) ==
    IF move = NullMove THEN "--"
    ELSE IF move.from_square \notin DOMAIN board.pieces THEN AssertionError
    ELSE LET sym == board.pieces[move.from_square]
             white == sym \in WhiteSymbols
             capture == /\ move.to_square \in DOMAIN board.pieces
                        /\ (board.pieces[move.to_square] \in WhiteSymbols) # white
             letter == IF sym \in {"p", "P"} THEN "" ELSE upper(sym)
             diff == square_file(move.from_square) - square_file(move.to_square)
         IN IF letter = "K" /\ (diff > 1 \/ diff < -1)
            THEN (IF diff < 0 THEN "O-O" ELSE "O-O-O")
            ELSE letter
                 \o (IF letter = "" /\ capture THEN SubSeq(move.from_square, 1, 1) ELSE "")
                 \o (IF capture THEN "x" ELSE "")
                 \o move.to_square
                 \o (IF move.promotion = None THEN "" ELSE "=" \o upper(move.promotion))

(***************************************************************************)
(* Provider client library at the boundary the handlers use                *)
(***************************************************************************)
\* exception classes the handlers distinguish, with the openai hierarchy:
\* APITimeoutError is a subclass of APIConnectionError
ProviderErrors == {"RateLimitError", "AuthenticationError", "APIConnectionError",
                   "APITimeoutError", "APIError"}
isinstance(cls, base) ==
    \/ cls = base
    \/ base = "Exception"
    \/ (cls = "APITimeoutError" /\ base = "APIConnectionError")
    \/ (cls = "InvalidMoveError" /\ base = "ValueError")

Exc(cls, text) == [kind |-> "raise", cls |-> cls, text |-> text, shape |-> None, move |-> None]
Value(shape, move) == [kind |-> "return", cls |-> None, text |-> None, shape |-> shape, move |-> move]
NoResult == Value("none", None)

\* move identifiers a provider answer may carry
UciStrings == {"e2e4", "e7e5", "e4e5", "0000", "e2"}
\* shapes of the awaited selection result: a structured object whose move
\* field is an enum member, a plain mapping with a move key, anything else
Shapes == {"object", "mapping", "other"}

\* what the provider may answer to a selection call
SelectionAnswers ==
    {Value(sh, u) : sh \in {"object", "mapping"}, u \in UciStrings}
    \cup {Value("other", None), NoResult}
    \cup {Exc(c, t) : c \in ProviderErrors, t \in ErrTexts}

\* catalogs the provider may list, as the ids of models.data in order
Catalogs ==
    {<<"gpt-4o", "gpt-4o-mini", "gpt-3.5-turbo", "o1-preview", "gpt-4-vision-preview",
       "gpt-4-instruct", "text-embedding-ada-002", "dall-e-3">>,
     <<"o1-mini", "gpt-4o-realtime-preview", "gpt-4", "gpt-image-1", "gpt-4o-audio-preview",
       "o1">>,
     <<>>}

\* exception classes of a models.list() call: the handlers tell an
\* authentication failure from every other failure
ListErrors == {"AuthenticationError", "APIConnectionError"}

\* what the provider may answer to the models.list() of a credential probe
ProbeAnswers ==
    {[kind |-> "return", cls |-> None, text |-> None, data |-> <<>>]}
    \cup {[kind |-> "raise", cls |-> c, text |-> t, data |-> <<>>] : c \in ListErrors, t \in ErrTexts}

\* what the provider may answer to models.list(): a catalog or an error
ListAnswers ==
    {[kind |-> "return", cls |-> None, text |-> None, data |-> c] : c \in Catalogs}
    \cup {[kind |-> "raise", cls |-> c, text |-> t, data |-> <<>>] : c \in ListErrors, t \in ErrTexts}

\* move_map / MoveEnum: the closed set of identifiers of the decoding contract
MoveEnum(legal_moves) == {uci_of(m) : m \in legal_moves}

\* variant of with_structured_output: the contract is not applied to the answer
with_structured_output_unchecked(move_enum, answer) == answer

\* the structured-output layer given the MoveSelection contract: an object
\* result is an instance of MoveSelection, so an answer whose move is not a
\* member of MoveEnum fails validation; a plain mapping is passed through
with_structured_output(move_enum, answer) ==
    IF answer.kind = "return" /\ answer.shape = "object" /\ answer.move \notin move_enum
    THEN Exc("ValidationError", "validation")
    ELSE answer

(***************************************************************************)
(* State                                                                   *)
(***************************************************************************)
VARIABLES
    env_key,            \* OPENAI_API_KEY of the process environment
    main_api_key,       \* _OPENAI_API_KEY of main.py
    config_api_key,     \* _openai_api_key of core/config.py
    startup,            \* startup_event: position, probe calls made, probe outcome
    probed_ok,          \* credentials held by a store whose probe (models.list) has succeeded
    req                 \* per request task: handler, position, inputs, response

vars == <<env_key, main_api_key, config_api_key, startup, probed_ok, req>>

\* request tasks that may be in flight together
Tasks == {"t1", "t2"}

\* what a request has received from its awaited call: nothing yet, a value
\* (with its shape and move, for a selection, and its data, for a listing)
\* or an exception of a class
Pending == [kind |-> "pending", cls |-> None, shape |-> None, move |-> None, data |-> <<>>]
Seen(answer) ==
    [kind |-> answer.kind, cls |-> answer.cls,
     shape |-> IF "shape" \in DOMAIN answer THEN answer.shape ELSE None,
     move |-> IF "move" \in DOMAIN answer THEN answer.move ELSE None,
     data |-> IF "data" \in DOMAIN answer THEN answer.data ELSE <<>>]

IdleReq ==
    [op |-> "idle", pc |-> "idle", fen |-> None, model |-> None, api_key |-> None,
     client_key |-> None, call_model |-> None, calls |-> 0, answer |-> Pending, status |-> 0, detail |-> None,
     move |-> None, san |-> None, models |-> <<>>, configured |-> FALSE, fault |-> FALSE]

\* raise HTTPException(status_code, detail) leaving the handler
HTTPException(r, status, detail) ==
    [r EXCEPT !.pc = "done", !.status = status, !.detail = detail]

\* an exception that leaves the handler unconverted: the server answers 500
Unhandled(r) ==
    [r EXCEPT !.pc = "done", !.status = 500, !.detail = "Internal Server Error", !.fault = TRUE]

\* str(HTTPException(status_code=500, detail=...))
HTTPExceptionStr(detail) == "500: " \o detail

TypeError == [error |-> "TypeError"]

\* models/schemas.py MoveRequest: the model field of a body that carries none
\* takes the default
DefaultModel == "gpt-4o-mini"
MoveRequest(fen, model) ==
    [fen |-> fen, model |-> IF model = None THEN DefaultModel ELSE model]

\* the move requests clients send: every position without a model, and the
\* starting position with a model chosen from the listing
MoveRequests ==
    {MoveRequest(fen, None) : fen \in Fens} \cup {MoveRequest(StartFen, "gpt-4o")}

\* core/config.py get_langchain_client(): takes no parameters
get_langchain_client(kwargs, store) ==
    IF kwargs # {} THEN TypeError
    ELSE [api_key |-> IF Truthy(store) THEN store ELSE None, model |-> "gpt-4o-mini"]

\* main.py get_openai_client()
get_openai_client(store) == [api_key |-> IF Truthy(store) THEN store ELSE "missing"]

(***************************************************************************)
(* POST /move of api/endpoints.py                                          *)
(***************************************************************************)
\* the except clauses of get_move, in source order
get_move_except(r, cls, text) ==
    IF isinstance(cls, "RateLimitError")
    THEN HTTPException(r, 429, "OpenAI API quota exceeded or rate limit reached. Please check your plan limits.")
    ELSE IF isinstance(cls, "AuthenticationError")
    THEN HTTPException(r, 401, "OpenAI API key is invalid or expired. Please check your settings.")
    ELSE IF isinstance(cls, "APIConnectionError")
    THEN HTTPException(r, 503, "Failed to connect to OpenAI API. Please check your internet connection.")
    ELSE HTTPException(r, 500, "Internal server error: " \o text)

\* variant of get_move_start: the ValueError of chess.Board is not caught
get_move_start_uncaught(r, request, store) ==
    LET fen == request.fen
        q == [r EXCEPT !.op = "get_move", !.fen = fen, !.model = request.model]
        board == Board(fen)
    IN IF board = ValueError THEN Unhandled(q)
       ELSE IF is_game_over(board) THEN HTTPException(q, 400, "Game is over")
       ELSE IF board.legal_moves = {} THEN HTTPException(q, 400, "No legal moves available")
       ELSE IF ~Truthy(store)
       THEN HTTPException(q, 412, "OpenAI API key is missing. Please configure it in the settings.")
       ELSE LET llm == get_langchain_client({"model"}, store)
            IN IF llm = TypeError THEN Unhandled(q)
               ELSE [q EXCEPT !.pc = "await", !.client_key = llm.api_key,
                              !.call_model = llm.model, !.calls = @ + 1]

\* variant of get_move_start: the credential is resolved before the position
\* is looked at
get_move_start_key_first(r, request, store) ==
    LET fen == request.fen
        q == [r EXCEPT !.op = "get_move", !.fen = fen, !.model = request.model]
        board == Board(fen)
    IN IF ~Truthy(store)
       THEN HTTPException(q, 412, "OpenAI API key is missing. Please configure it in the settings.")
       ELSE IF board = ValueError THEN HTTPException(q, 400, "Invalid FEN string")
       ELSE IF is_game_over(board) THEN HTTPException(q, 400, "Game is over")
       ELSE IF board.legal_moves = {} THEN HTTPException(q, 400, "No legal moves available")
       ELSE LET llm == get_langchain_client({"model"}, store)
            IN IF llm = TypeError THEN Unhandled(q)
               ELSE [q EXCEPT !.pc = "await", !.client_key = llm.api_key,
                              !.call_model = llm.model, !.calls = @ + 1]

\* get_move up to the awaited ainvoke: the handler runs without suspension
get_move_start(r, request, store) ==
    LET fen == request.fen
        q == [r EXCEPT !.op = "get_move", !.fen = fen, !.model = request.model]
        board == Board(fen)
    IN IF board = ValueError THEN HTTPException(q, 400, "Invalid FEN string")
       ELSE IF is_game_over(board) THEN HTTPException(q, 400, "Game is over")
       ELSE IF board.legal_moves = {} THEN HTTPException(q, 400, "No legal moves available")
       ELSE LET api_key == store
            IN IF ~Truthy(api_key)
               THEN HTTPException(q, 412, "OpenAI API key is missing. Please configure it in the settings.")
               ELSE LET llm == get_langchain_client({"model"}, store)
                    IN IF llm = TypeError THEN Unhandled(q)
                       ELSE [q EXCEPT !.pc = "await", !.client_key = llm.api_key,
                              !.call_model = llm.model, !.calls = @ + 1]

\* get_move from the result of the awaited ainvoke to the response
get_move_finish(r, raw) ==
    LET board == Board(r.fen)
        answer == with_structured_output(MoveEnum(board.legal_moves), raw)
        q == [r EXCEPT !.answer = Seen(answer)]
    IN IF answer.kind = "raise" THEN get_move_except(q, answer.cls, answer.text)
       ELSE IF answer.shape = "none"
       THEN get_move_except(q, "HTTPException", HTTPExceptionStr("Failed to parse LLM response"))
       ELSE IF answer.shape \notin {"mapping", "object"}
       THEN get_move_except(q, "AttributeError", "object has no attribute 'move'")
       ELSE LET move_uci == answer.move
                move == from_uci(move_uci)
            IN IF move = InvalidMoveError
               THEN get_move_except(q, "InvalidMoveError", "invalid uci")
               ELSE LET s == san(board, move)
                    IN IF s = AssertionError
                       THEN get_move_except(q, "AssertionError", "san() and lan() expect move to be legal or null")
                       ELSE [q EXCEPT !.pc = "done", !.status = 200, !.move = move_uci, !.san = s]

(***************************************************************************)
(* POST /move of main.py                                                   *)
(***************************************************************************)
\* variant of main_get_move_start: the credential is not checked before the call
main_get_move_start_nocheck(r, request, store) ==
    LET fen == request.fen
        q == [r EXCEPT !.op = "main_get_move", !.fen = fen, !.model = request.model]
        board == Board(fen)
    IN IF board = ValueError THEN HTTPException(q, 400, "Invalid FEN string")
       ELSE IF is_game_over(board) THEN HTTPException(q, 400, "Game is over")
       ELSE IF board.legal_moves = {} THEN HTTPException(q, 400, "No legal moves available")
       ELSE LET client == get_openai_client(store)
            IN [q EXCEPT !.pc = "await", !.client_key = client.api_key,
                         !.call_model = "gpt-4o-mini", !.calls = @ + 1]

\* main.py get_move up to the awaited completions.parse: the model of the
\* call is a literal, whatever the body of the request carries
main_get_move_start(r, request, store) ==
    LET fen == request.fen
        q == [r EXCEPT !.op = "main_get_move", !.fen = fen, !.model = request.model]
        board == Board(fen)
    IN IF board = ValueError THEN HTTPException(q, 400, "Invalid FEN string")
       ELSE IF is_game_over(board) THEN HTTPException(q, 400, "Game is over")
       ELSE IF board.legal_moves = {} THEN HTTPException(q, 400, "No legal moves available")
       ELSE IF ~Truthy(store)
       THEN HTTPException(q, 412, "OpenAI API key is missing. Please configure it in the settings.")
       ELSE LET client == get_openai_client(store)
            IN [q EXCEPT !.pc = "await", !.client_key = client.api_key,
                         !.call_model = "gpt-4o-mini", !.calls = @ + 1]

\* variant of main_get_move_finish: an empty result is answered as a success
\* without a move
main_get_move_finish_empty_ok(r, raw) ==
    LET board == Board(r.fen)
        answer == with_structured_output(MoveEnum(board.legal_moves), raw)
        q == [r EXCEPT !.answer = Seen(answer)]
    IN IF answer.kind = "raise" THEN HTTPException(q, 500, answer.text)
       ELSE IF answer.shape = "none" THEN [q EXCEPT !.pc = "done", !.status = 200]
       ELSE IF answer.shape # "object"
       THEN HTTPException(q, 500, "object has no attribute 'move'")
       ELSE LET move_uci == answer.move
                move == from_uci(move_uci)
            IN IF move = InvalidMoveError THEN HTTPException(q, 500, "invalid uci")
               ELSE LET s == san(board, move)
                    IN IF s = AssertionError
                       THEN HTTPException(q, 500, "san() and lan() expect move to be legal or null")
                       ELSE [q EXCEPT !.pc = "done", !.status = 200, !.move = move_uci, !.san = s]

\* main.py get_move from the parsed completion to the response: a single
\* except clause turns every exception into status 500 with detail str(e)
main_get_move_finish(r, raw) ==
    LET board == Board(r.fen)
        answer == with_structured_output(MoveEnum(board.legal_moves), raw)
        q == [r EXCEPT !.answer = Seen(answer)]
    IN IF answer.kind = "raise" THEN HTTPException(q, 500, answer.text)
       ELSE IF answer.shape = "none"
       THEN HTTPException(q, 500, HTTPExceptionStr("Failed to parse LLM response"))
       ELSE IF answer.shape # "object"
       THEN HTTPException(q, 500, "object has no attribute 'move'")
       ELSE LET move_uci == answer.move
                move == from_uci(move_uci)
            IN IF move = InvalidMoveError THEN HTTPException(q, 500, "invalid uci")
               ELSE LET s == san(board, move)
                    IN IF s = AssertionError
                       THEN HTTPException(q, 500, "san() and lan() expect move to be legal or null")
                       ELSE [q EXCEPT !.pc = "done", !.status = 200, !.move = move_uci, !.san = s]

(***************************************************************************)
(* GET /config/models of api/endpoints.py                                  *)
(***************************************************************************)
FallbackModels == <<"gpt-4o-mini", "gpt-4o", "gpt-3.5-turbo">>

\* the filter of get_models on one identifier
is_chat_model(id) ==
    /\ (startswith(id, "gpt-") \/ startswith(id, "o1-"))
    /\ ~\E x \in {"-vision", "-instruct", "realtime", "audio"} : contains(id, x)

chat_models(data) == SelectSeq(data, is_chat_model)

\* the listing returned for each catalog, computed once
ChatModelsOf == [c \in Catalogs |-> sorted(chat_models(c))]

\* get_models up to the awaited models.list
get_models_start(r, store) ==
    LET q == [r EXCEPT !.op = "get_models"]
        api_key == store
    IN IF ~Truthy(api_key) THEN [q EXCEPT !.pc = "done", !.status = 200, !.models = <<>>]
       ELSE [q EXCEPT !.pc = "await", !.client_key = api_key, !.calls = @ + 1]

\* variant of get_models_finish: a provider failure is passed on as an error
get_models_finish_propagate(r, answer) ==
    LET q == [r EXCEPT !.answer = Seen(answer)]
    IN IF answer.kind = "raise"
       THEN HTTPException(q, 500, "Internal server error: " \o answer.text)
       ELSE [q EXCEPT !.pc = "done", !.status = 200, !.models = ChatModelsOf[answer.data]]

\* get_models from the result of models.list to the response
get_models_finish(r, answer) ==
    LET q == [r EXCEPT !.answer = Seen(answer)]
    IN IF answer.kind = "raise"
       THEN [q EXCEPT !.pc = "done", !.status = 200, !.models = FallbackModels]
       ELSE [q EXCEPT !.pc = "done", !.status = 200, !.models = ChatModelsOf[answer.data]]

(***************************************************************************)
(* POST /config/api-key of api/endpoints.py and of main.py                 *)
(***************************************************************************)
\* set_api_key up to the awaited models.list of the temporary client
set_api_key_start(r, op, api_key) ==
    [r EXCEPT !.op = op, !.api_key = api_key, !.pc = "await",
              !.client_key = api_key, !.calls = @ + 1]

\* the response of api/endpoints.py set_api_key
set_api_key_finish(r, answer) ==
    LET q == [r EXCEPT !.answer = Seen(answer)]
    IN IF answer.kind = "raise" /\ isinstance(answer.cls, "AuthenticationError")
       THEN HTTPException(q, 401, "Invalid OpenAI API key provided.")
       ELSE IF answer.kind = "raise"
       THEN HTTPException(q, 401, "Invalid OpenAI API key: " \o answer.text)
       ELSE [q EXCEPT !.pc = "done", !.status = 200, !.detail = "API key validated and updated"]

\* the response of main.py set_api_key
main_set_api_key_finish(r, answer) ==
    LET q == [r EXCEPT !.answer = Seen(answer)]
    IN IF answer.kind = "raise"
       THEN HTTPException(q, 401, "Invalid OpenAI API key: " \o answer.text)
       ELSE [q EXCEPT !.pc = "done", !.status = 200, !.detail = "API key validated and updated"]

\* variant of set_api_key_store: the candidate is stored whatever the probe said
set_api_key_store_always(r, answer, store) == r.api_key

\* variant of set_api_key_store: a failed probe clears the store
set_api_key_store_clear(r, answer, store) ==
    IF answer.kind = "raise" THEN None ELSE r.api_key

\* the value set_api_key leaves in the store it writes
set_api_key_store(r, answer, store) ==
    IF answer.kind = "raise" THEN store ELSE r.api_key

(***************************************************************************)
(* GET /health of api/endpoints.py and of main.py                          *)
(***************************************************************************)
health_check_response(r, op, store) ==
    [r EXCEPT !.op = op, !.pc = "done", !.status = 200, !.detail = "ok",
              !.configured = Truthy(store)]

(***************************************************************************)
(* Initial state: module import of main.py and core/config.py              *)
(***************************************************************************)
Init ==
    /\ env_key \in EnvKeys
    /\ main_api_key = env_key
    /\ config_api_key = env_key
    /\ startup = [pc |-> "pending", calls |-> 0, outcome |-> "none"]
    /\ probed_ok = {}
    /\ req = [t \in Tasks |-> IdleReq]

\* the probed credentials after a probe of credential k was answered, kept
\* for the credentials the two stores hold after the step
Probed(answer, k, main_after, config_after) ==
    (IF answer.kind = "raise" THEN probed_ok ELSE probed_ok \cup {k})
        \cap {main_after, config_after}

(***************************************************************************)
(* main.py startup_event                                                   *)
(***************************************************************************)
startup_event_begin ==
    /\ startup.pc = "pending"
    /\ startup' = IF Truthy(main_api_key)
                  THEN [startup EXCEPT !.pc = "probing", !.calls = @ + 1]
                  ELSE [startup EXCEPT !.pc = "done"]
    /\ UNCHANGED <<env_key, main_api_key, config_api_key, probed_ok, req>>

startup_event_end ==
    /\ startup.pc = "probing"
    /\ \E answer \in ProbeAnswers :
          /\ main_api_key' = IF answer.kind = "raise" THEN None ELSE main_api_key
          /\ probed_ok' = Probed(answer, main_api_key, main_api_key', config_api_key)
          /\ startup' = [startup EXCEPT !.pc = "done",
                            !.outcome = IF answer.kind = "raise" THEN "failed" ELSE "ok"]
    /\ UNCHANGED <<env_key, config_api_key, req>>

(***************************************************************************)
(* Request handlers: the server accepts requests once startup completed    *)
(***************************************************************************)
Serving(t) == startup.pc = "done" /\ req[t].pc = "idle"

health_check(t) ==
    /\ Serving(t)
    /\ req' = [req EXCEPT ![t] = health_check_response(@, "health_check", config_api_key)]
    /\ UNCHANGED <<env_key, main_api_key, config_api_key, startup, probed_ok>>

main_health_check(t) ==
    /\ Serving(t)
    /\ req' = [req EXCEPT ![t] = health_check_response(@, "main_health_check", main_api_key)]
    /\ UNCHANGED <<env_key, main_api_key, config_api_key, startup, probed_ok>>

set_api_key_begin(t) ==
    /\ Serving(t)
    /\ \E k \in Keys : req' = [req EXCEPT ![t] = set_api_key_start(@, "set_api_key", k)]
    /\ UNCHANGED <<env_key, main_api_key, config_api_key, startup, probed_ok>>

set_api_key_end(t) ==
    /\ req[t].op = "set_api_key" /\ req[t].pc = "await"
    /\ \E answer \in ProbeAnswers :
          /\ req' = [req EXCEPT ![t] = set_api_key_finish(@, answer)]
          /\ config_api_key' = set_api_key_store(req[t], answer, config_api_key)
          /\ probed_ok' = Probed(answer, req[t].api_key, main_api_key, config_api_key')
    /\ UNCHANGED <<env_key, main_api_key, startup>>

main_set_api_key_begin(t) ==
    /\ Serving(t)
    /\ \E k \in Keys : req' = [req EXCEPT ![t] = set_api_key_start(@, "main_set_api_key", k)]
    /\ UNCHANGED <<env_key, main_api_key, config_api_key, startup, probed_ok>>

\* variant of main_set_api_key_end: the clients of the calls in flight read
\* the store when they send, so a commit reaches them
main_set_api_key_end_shared(t) ==
    /\ req[t].op = "main_set_api_key" /\ req[t].pc = "await"
    /\ \E answer \in ProbeAnswers :
          /\ main_api_key' = set_api_key_store(req[t], answer, main_api_key)
          /\ req' = [u \in Tasks |->
                        IF u = t THEN main_set_api_key_finish(req[u], answer)
                        ELSE IF req[u].op = "main_get_move" /\ req[u].pc = "await"
                        THEN [req[u] EXCEPT !.client_key = main_api_key']
                        ELSE req[u]]
          /\ probed_ok' = Probed(answer, req[t].api_key, main_api_key', config_api_key)
    /\ UNCHANGED <<env_key, config_api_key, startup>>

main_set_api_key_end(t) ==
    /\ req[t].op = "main_set_api_key" /\ req[t].pc = "await"
    /\ \E answer \in ProbeAnswers :
          /\ req' = [req EXCEPT ![t] = main_set_api_key_finish(@, answer)]
          /\ main_api_key' = set_api_key_store(req[t], answer, main_api_key)
          /\ probed_ok' = Probed(answer, req[t].api_key, main_api_key', config_api_key)
    /\ UNCHANGED <<env_key, config_api_key, startup>>

get_models_begin(t) ==
    /\ Serving(t)
    /\ req' = [req EXCEPT ![t] = get_models_start(@, config_api_key)]
    /\ UNCHANGED <<env_key, main_api_key, config_api_key, startup, probed_ok>>

get_models_end(t) ==
    /\ req[t].op = "get_models" /\ req[t].pc = "await"
    /\ \E answer \in ListAnswers : req' = [req EXCEPT ![t] = get_models_finish(@, answer)]
    /\ UNCHANGED <<env_key, main_api_key, config_api_key, startup, probed_ok>>

get_move_begin(t) ==
    /\ Serving(t)
    /\ \E request \in MoveRequests :
          req' = [req EXCEPT ![t] = get_move_start(@, request, config_api_key)]
    /\ UNCHANGED <<env_key, main_api_key, config_api_key, startup, probed_ok>>

main_get_move_begin(t) ==
    /\ Serving(t)
    /\ \E request \in MoveRequests :
          req' = [req EXCEPT ![t] = main_get_move_start(@, request, main_api_key)]
    /\ UNCHANGED <<env_key, main_api_key, config_api_key, startup, probed_ok>>

\* variant of selection_call_end: a credential the provider rejects is
\* removed from the store the handler reads
selection_call_end_clearing(t) ==
    /\ req[t].op \in {"get_move", "main_get_move"} /\ req[t].pc = "await"
    /\ \E raw \in SelectionAnswers :
          /\ req' = [req EXCEPT ![t] = IF @.op = "get_move" THEN get_move_finish(@, raw)
                                       ELSE main_get_move_finish(@, raw)]
          /\ main_api_key' = IF raw.cls = "AuthenticationError" THEN None ELSE main_api_key
    /\ UNCHANGED <<env_key, config_api_key, startup, probed_ok>>

\* the awaited selection call of a move request completes
selection_call_end(t) ==
    /\ req[t].op \in {"get_move", "main_get_move"} /\ req[t].pc = "await"
    /\ \E raw \in SelectionAnswers :
          req' = [req EXCEPT ![t] = IF @.op = "get_move" THEN get_move_finish(@, raw)
                                    ELSE main_get_move_finish(@, raw)]
    /\ UNCHANGED <<env_key, main_api_key, config_api_key, startup, probed_ok>>

\* the request is abandoned while its provider call is awaited: the task is
\* cancelled at the await, no except clause of the handler runs and nothing
\* after the await is executed
cancel(t) ==
    /\ req[t].pc = "await"
    /\ req' = [req EXCEPT ![t] = IdleReq]
    /\ UNCHANGED <<env_key, main_api_key, config_api_key, startup, probed_ok>>

\* the response has been sent and the task is gone
respond(t) ==
    /\ req[t].pc = "done"
    /\ req' = [req EXCEPT ![t] = IdleReq]
    /\ UNCHANGED <<env_key, main_api_key, config_api_key, startup, probed_ok>>

Next ==
    \/ startup_event_begin
    \/ startup_event_end
    \/ \E t \in Tasks :
          \/ health_check(t)
          \/ main_health_check(t)
          \/ set_api_key_begin(t)
          \/ set_api_key_end(t)
          \/ main_set_api_key_begin(t)
          \/ main_set_api_key_end(t)
          \/ get_models_begin(t)
          \/ get_models_end(t)
          \/ get_move_begin(t)
          \/ main_get_move_begin(t)
          \/ selection_call_end(t)
          \/ cancel(t)
          \/ respond(t)

Spec == Init /\ [][Next]_vars

TypeOK ==
    /\ env_key \in EnvKeys
    /\ main_api_key \in {None, EmptyStr} \cup Keys
    /\ config_api_key \in {None, EmptyStr} \cup Keys
    /\ startup.pc \in {"pending", "probing", "done"}
    /\ probed_ok \subseteq Keys
    /\ \A t \in Tasks : req[t].pc \in {"idle", "await", "done"} /\ req[t].calls \in 0..1

(***************************************************************************)
(* Properties                                                              *)
(***************************************************************************)
MoveOps == {"get_move", "main_get_move"}
SetKeyOps == {"set_api_key", "main_set_api_key"}

\* the credential holder a handler reads and writes
StoreOf(op) == IF op \in {"get_move", "get_models", "health_check", "set_api_key"}
               THEN config_api_key ELSE main_api_key

\* the legal-move set of the position a request carries
LegalMoveSet(fen) == {uci_of(m) : m \in Board(fen).legal_moves}

\* a parsed position in which the game has concluded: the side to move has no
\* legal move (checkmate, stalemate) or a draw is forced by the rules
RulesTerminal(board) ==
    \/ board.legal_moves = {}
    \/ is_insufficient_material(board)
    \/ board.halfmove_clock >= 150

\* C1: every move request that ends with status 200 returns a move identifier
\* that belongs to the legal-move set of the position of that request,
\* whatever the provider answered
C1_ClosedSet ==
    \A t \in Tasks :
        (req[t].op \in MoveOps /\ req[t].pc = "done" /\ req[t].status = 200)
            => req[t].move \in LegalMoveSet(req[t].fen)

C1_Witness ==
    \E t \in Tasks :
        /\ req[t].op \in MoveOps /\ req[t].pc = "done" /\ req[t].status = 200
        /\ req[t].fen = AfterE4Fen /\ req[t].move = "e7e5"

\* C2: a move request whose position text does not parse makes no provider
\* call and ends with status 400 and detail "Invalid FEN string"
C2_InvalidPosition ==
    \A t \in Tasks :
        (req[t].op \in MoveOps /\ Board(req[t].fen) = ValueError)
            => /\ req[t].calls = 0
               /\ req[t].pc = "done"
               /\ req[t].status = 400
               /\ req[t].detail = "Invalid FEN string"
               /\ ~req[t].fault

C2_Witness ==
    \E t \in Tasks :
        req[t].op = "get_move" /\ req[t].fen = InvalidFen /\ req[t].pc = "done"

\* C3: a move request whose position parses and is rules-terminal makes no
\* provider call and ends with status 400 and detail "Game is over", never
\* with "No legal moves available"
C3_GameAlreadyOver ==
    \A t \in Tasks :
        (/\ req[t].op \in MoveOps
         /\ Board(req[t].fen) # ValueError
         /\ RulesTerminal(Board(req[t].fen)))
            => /\ req[t].calls = 0
               /\ req[t].pc = "done"
               /\ req[t].status = 400
               /\ req[t].detail = "Game is over"

C3_Witness ==
    \E t \in Tasks :
        req[t].op \in MoveOps /\ req[t].fen = QueenStalemateFen /\ req[t].pc = "done"

\* C4 as stated: with no credential in the store, every move request ends
\* with status 412 and makes no provider call
C4_AnyRequest412 ==
    [][\A t \in Tasks :
          (/\ req[t].pc = "idle"
           /\ req'[t].op \in MoveOps
           /\ ~Truthy(StoreOf(req'[t].op)))
              => /\ req'[t].pc = "done"
                 /\ req'[t].status = 412
                 /\ req'[t].calls = 0]_vars

\* C4 amended: with no credential in the store, every move request whose
\* position parses and is not rules-terminal ends with status 412 and makes
\* no provider call
C4_CredentialMissing ==
    [][\A t \in Tasks :
          (/\ req[t].pc = "idle"
           /\ req'[t].op \in MoveOps
           /\ ~Truthy(StoreOf(req'[t].op))
           /\ Board(req'[t].fen) # ValueError
           /\ ~RulesTerminal(Board(req'[t].fen)))
              => /\ req'[t].pc = "done"
                 /\ req'[t].status = 412
                 /\ req'[t].calls = 0]_vars

C4_Witness ==
    \E t \in Tasks :
        /\ req[t].op = "main_get_move" /\ req[t].pc = "done" /\ req[t].status = 412
        /\ req[t].fen = StartFen /\ req[t].calls = 0

\* the status the error mapping table gives a provider failure of a class
ExpectedStatus(cls) ==
    CASE cls = "RateLimitError" -> 429
      [] cls = "AuthenticationError" -> 401
      [] cls \in {"APIConnectionError", "APITimeoutError"} -> 503
      [] OTHER -> 500

\* C5: a failed provider call of a move request is answered with the status
\* of its kind: rate limit 429, authentication 401, connection 503, any
\* other failure 500
C5_ErrorMapping ==
    \A t \in Tasks :
        (/\ req[t].op \in MoveOps /\ req[t].pc = "done"
         /\ req[t].answer.kind = "raise" /\ req[t].answer.cls \in ProviderErrors)
            => req[t].status = ExpectedStatus(req[t].answer.cls)

\* C6: when a set_api_key call returns, either its probe succeeded, the store
\* holds its candidate and the status is 200, or its probe failed, the call
\* left the store as it was and the status is 401
C6_AtomicCommit ==
    [][\A t \in Tasks :
          (req[t].op \in SetKeyOps /\ req[t].pc = "await" /\ req'[t].pc = "done")
              => LET before == IF req[t].op = "set_api_key" THEN config_api_key ELSE main_api_key
                     after == IF req[t].op = "set_api_key" THEN config_api_key' ELSE main_api_key'
                 IN \/ /\ req'[t].answer.kind = "return"
                       /\ after = req[t].api_key
                       /\ req'[t].status = 200
                    \/ /\ req'[t].answer.kind = "raise"
                       /\ after = before
                       /\ req'[t].status = 401]_vars

C6_Witness ==
    \E t \in Tasks :
        /\ req[t].op = "set_api_key" /\ req[t].pc = "done" /\ req[t].status = 401
        /\ Truthy(config_api_key) /\ config_api_key # req[t].api_key

\* C7: once startup has completed, it has run the probe once if a credential
\* was configured and not at all otherwise, it has not failed, and each
\* credential store is empty or holds a credential whose probe succeeded
C7_StartupValidation ==
    startup.pc = "done"
        => /\ startup.calls = (IF Truthy(env_key) THEN 1 ELSE 0)
           /\ ~Truthy(main_api_key) \/ main_api_key \in probed_ok
           /\ ~Truthy(config_api_key) \/ config_api_key \in probed_ok

\* a set_api_key call of task t commits value v to the store of handler op
Commits(t, op, v) ==
    /\ req[t].op = op /\ req[t].pc = "await"
    /\ req'[t].pc = "done" /\ req'[t].status = 200
    /\ req'[t].answer.kind = "return"
    /\ v = req[t].api_key

\* C8: while requests are served, a credential store changes only in the
\* step in which a set_api_key call whose probe succeeded commits, and
\* then to the candidate of that call: no reader sees a pending or rejected
\* candidate, and a call whose probe fails leaves what another call committed
C8_NoTornCommit ==
    [][startup.pc = "done"
         => /\ (config_api_key' # config_api_key
                  => \E t \in Tasks : Commits(t, "set_api_key", config_api_key'))
            /\ (main_api_key' # main_api_key
                  => \E t \in Tasks : Commits(t, "main_set_api_key", main_api_key'))]_vars

C8_Witness ==
    \E t1, t2 \in Tasks :
        /\ req[t1].op = "set_api_key" /\ req[t1].pc = "done" /\ req[t1].status = 200
        /\ req[t2].op = "set_api_key" /\ req[t2].pc = "done" /\ req[t2].status = 401
        /\ req[t1].api_key # req[t2].api_key
        /\ config_api_key = req[t1].api_key

\* C9: model listing always ends with status 200: with no credential in the
\* store it makes no provider call and returns the empty sequence, and when
\* the provider listing fails it returns the fallback sequence
C9_ModelListingNeverFails ==
    /\ [](\A t \in Tasks :
            (req[t].op = "get_models" /\ req[t].pc = "done")
                => /\ req[t].status = 200
                   /\ ~req[t].fault
                   /\ (req[t].answer.kind = "raise"
                         => req[t].models = <<"gpt-4o-mini", "gpt-4o", "gpt-3.5-turbo">>))
    /\ [][\A t \in Tasks :
            (req[t].pc = "idle" /\ req'[t].op = "get_models" /\ ~Truthy(config_api_key))
                => /\ req'[t].pc = "done"
                   /\ req'[t].status = 200
                   /\ req'[t].models = <<>>
                   /\ req'[t].calls = 0]_vars

C9_Witness ==
    \E t \in Tasks :
        /\ req[t].op = "get_models" /\ req[t].pc = "done"
        /\ req[t].answer.kind = "raise" /\ req[t].answer.cls = "APIConnectionError"
        /\ req[t].status = 200

\* C10: for the same move identifier, a selection result in the object
\* shape and one in the mapping shape give the same response, and a result
\* of any other shape gives a 500 error response
C10_Normalization ==
    /\ \A t1, t2 \in Tasks :
          (/\ req[t1].op \in MoveOps /\ req[t2].op = req[t1].op
           /\ req[t1].pc = "done" /\ req[t2].pc = "done"
           /\ req[t1].fen = req[t2].fen
           /\ req[t1].answer.kind = "return" /\ req[t2].answer.kind = "return"
           /\ req[t1].answer.shape = "object" /\ req[t2].answer.shape = "mapping"
           /\ req[t1].answer.move = req[t2].answer.move)
              => /\ req[t1].status = req[t2].status
                 /\ req[t1].move = req[t2].move
                 /\ req[t1].san = req[t2].san
    /\ \A t \in Tasks :
          (/\ req[t].op \in MoveOps /\ req[t].pc = "done"
           /\ req[t].answer.kind = "return" /\ req[t].answer.shape = "other")
              => req[t].status = 500 /\ ~req[t].fault

\* C11: a move request that reaches the provider call issues it with the
\* model of the request: the model field when the body carries one, and
\* gpt-4o-mini otherwise
C11_ModelSelection ==
    [][\A t \in Tasks :
          (/\ req[t].pc = "idle"
           /\ req'[t].op \in MoveOps
           /\ Board(req'[t].fen) # ValueError
           /\ ~RulesTerminal(Board(req'[t].fen))
           /\ Truthy(StoreOf(req'[t].op)))
              => /\ req'[t].pc = "await"
                 /\ req'[t].calls = 1
                 /\ req'[t].call_model = req'[t].model]_vars

HealthOps == {"health_check", "main_health_check"}

\* C12: a health request ends at once with status "ok" and no provider call,
\* and its configured flag is true exactly when the store holds a non-empty
\* credential at that moment: so the flag is false after a failed startup
\* validation as long as no validated credential was committed, and true
\* after a set_api_key call committed
C12_HealthProbe ==
    [][\A t \in Tasks :
          (req[t].pc = "idle" /\ req'[t].op \in HealthOps)
              => /\ req'[t].pc = "done"
                 /\ req'[t].status = 200
                 /\ req'[t].detail = "ok"
                 /\ req'[t].calls = 0
                 /\ ~req'[t].fault
                 /\ req'[t].configured = Truthy(StoreOf(req'[t].op))
                 /\ (startup.outcome = "failed" /\ StoreOf(req'[t].op) \notin probed_ok)
                        => ~req'[t].configured
                 /\ StoreOf(req'[t].op) \in probed_ok => req'[t].configured]_vars

\* C13: two move requests, or two set_api_key requests, that carry the same
\* inputs and whose provider call failed with an error of the same class
\* receive the same status and the same detail, whatever the message text of
\* the provider error was
C13_ErrorTextHidden ==
    \A t1, t2 \in Tasks :
        (/\ req[t1].op \in MoveOps \cup SetKeyOps /\ req[t2].op = req[t1].op
         /\ req[t1].pc = "done" /\ req[t2].pc = "done"
         /\ req[t1].fen = req[t2].fen /\ req[t1].model = req[t2].model
         /\ req[t1].api_key = req[t2].api_key
         /\ req[t1].answer.kind = "raise" /\ req[t1].answer.cls \in ProviderErrors
         /\ req[t2].answer = req[t1].answer)
            => /\ req[t1].status = req[t2].status
               /\ req[t1].detail = req[t2].detail

\* C14: the steps of a move request run in order and stop at the first that
\* fails: an unparseable position is answered 400 "Invalid FEN string" and a
\* terminal one 400 "Game is over" whether or not a credential is stored, a
\* missing credential is answered 412 only for a playable position, none of
\* these makes a provider call, a request that passes them is not answered
\* with their errors, and a request that has its response takes no further
\* step
C14_StepOrder ==
    [][\A t \in Tasks :
          /\ (req[t].pc = "idle" /\ req'[t].op \in MoveOps)
                => LET board == Board(req'[t].fen)
                       failed(status, detail) ==
                           /\ req'[t].pc = "done"
                           /\ req'[t].status = status
                           /\ req'[t].detail = detail
                           /\ req'[t].calls = 0
                   IN IF board = ValueError THEN failed(400, "Invalid FEN string")
                      ELSE IF RulesTerminal(board) THEN failed(400, "Game is over")
                      ELSE IF ~Truthy(StoreOf(req'[t].op))
                      THEN failed(412, "OpenAI API key is missing. Please configure it in the settings.")
                      ELSE req'[t].status \notin {400, 412}
          /\ (req[t].op \in MoveOps /\ req[t].pc = "await")
                => \/ req'[t] = IdleReq
                   \/ /\ req'[t].status \notin {400, 412}
                      /\ req'[t].calls = req[t].calls
          /\ (req[t].op \in MoveOps /\ req[t].pc = "done")
                => req'[t] \in {req[t], IdleReq}]_vars

C14_Witness ==
    \E t1, t2 \in Tasks :
        /\ req[t1].op = "get_move" /\ req[t1].pc = "done" /\ req[t1].fen = InvalidFen
        /\ req[t1].status = 400 /\ ~Truthy(config_api_key)
        /\ req[t2].op = "main_get_move" /\ req[t2].pc = "done" /\ req[t2].fen = FoolsMateFen
        /\ req[t2].status = 400 /\ Truthy(main_api_key)

\* C15: a move request makes exactly one provider call when its position
\* parses, is not terminal and a credential is stored, and none otherwise;
\* the call is made when the request starts and no further call follows,
\* whatever the answer to the first
C15_OneCall ==
    [][\A t \in Tasks :
          /\ (req[t].pc = "idle" /\ req'[t].op \in MoveOps)
                => req'[t].calls =
                      (IF /\ Board(req'[t].fen) # ValueError
                          /\ ~RulesTerminal(Board(req'[t].fen))
                          /\ Truthy(StoreOf(req'[t].op))
                       THEN 1 ELSE 0)
          /\ (req[t].op \in MoveOps /\ req[t].pc # "idle")
                => (req'[t] = IdleReq \/ req'[t].calls = req[t].calls)]_vars

\* C16: a move request whose provider call returned no result ends with
\* status 500, converted by the handler, and carries no move and no notation
C16_EmptyResult ==
    \A t \in Tasks :
        (/\ req[t].op \in MoveOps /\ req[t].pc = "done"
         /\ req[t].answer.kind = "return" /\ req[t].answer.shape = "none")
            => /\ req[t].status = 500
               /\ ~req[t].fault
               /\ req[t].move = None
               /\ req[t].san = None

C16_Witness ==
    \E t \in Tasks :
        /\ req[t].op = "main_get_move" /\ req[t].pc = "done" /\ req[t].calls = 1
        /\ req[t].answer.kind = "return" /\ req[t].answer.shape = "none"
        /\ req[t].detail = "500: Failed to parse LLM response"

\* C17: a move request that has its response either succeeded, with status
\* 200, a move and the notation of that move in the position of the request,
\* after its provider call was answered, or failed with a status among 400,
\* 401, 412, 429, 503 and 500 and carries neither move nor notation; in both
\* cases the response was made by the handler, not by an exception that left it
C17_TwoOutcomes ==
    \A t \in Tasks :
        (req[t].op \in MoveOps /\ req[t].pc = "done")
            => /\ ~req[t].fault
               /\ \/ /\ req[t].status = 200
                     /\ req[t].calls = 1 /\ req[t].answer.kind = "return"
                     /\ req[t].move # None
                     /\ req[t].san = san(Board(req[t].fen), from_uci(req[t].move))
                  \/ /\ req[t].status \in {400, 401, 412, 429, 503, 500}
                     /\ req[t].move = None
                     /\ req[t].san = None

\* C18: a move request whose provider call was ended by the timeout of the
\* call, the provider not having answered, has failed with status 503 and
\* the detail of an unreachable provider
C18_TimeoutUnreachable ==
    \A t \in Tasks :
        (/\ req[t].op \in MoveOps /\ req[t].calls = 1 /\ req[t].pc = "done"
         /\ req[t].answer.kind = "raise" /\ req[t].answer.cls = "APITimeoutError")
            => /\ req[t].status = 503
               /\ req[t].detail = "Failed to connect to OpenAI API. Please check your internet connection."

\* the identifiers of a catalog a listing of chat models is to contain: those
\* with a chat prefix that name no vision, instruct, realtime, audio,
\* embedding or image-generation model
ChatIdsOf ==
    [c \in Catalogs |->
        {c[i] : i \in {j \in 1..Len(c) :
            /\ startswith(c[j], "gpt-") \/ startswith(c[j], "o1-")
            /\ ~\E x \in {"vision", "instruct", "realtime", "audio", "embedding", "image"} :
                   contains(c[j], x)}}]

\* C19: a model listing whose provider call returned a catalog contains
\* exactly the identifiers of that catalog that start with gpt- or o1- and
\* name no vision, instruct, realtime, audio, embedding or image-generation
\* model, each once, in ascending lexicographic order
C19_ChatModelFilter ==
    \A t \in Tasks :
        (req[t].op = "get_models" /\ req[t].pc = "done" /\ req[t].answer.kind = "return")
            => LET models == req[t].models
               IN /\ {models[i] : i \in 1..Len(models)} = ChatIdsOf[req[t].answer.data]
                  /\ \A i, j \in 1..Len(models) : i < j => str_lt(models[i], models[j])

\* the requests that only read the credential store
ReadOps == MoveOps \cup HealthOps \cup {"get_models"}

\* C20: no step of a move, health or model-listing request changes a
\* credential store, whether the step starts the request, completes its
\* provider call with a result or an error, abandons it while the call is
\* awaited, or sends the response; a store changes only when the startup
\* validation ends or a set_api_key call whose probe succeeded commits
C20_StoreFrame ==
    [][/\ \A t \in Tasks :
             (/\ req'[t] # req[t]
              /\ req[t].op \in ReadOps \/ req'[t].op \in ReadOps)
                 => /\ config_api_key' = config_api_key
                    /\ main_api_key' = main_api_key
       /\ (config_api_key' # config_api_key \/ main_api_key' # main_api_key)
             => \/ startup.pc = "probing" /\ startup'.pc = "done"
                \/ \E t \in Tasks :
                      /\ req[t].op \in SetKeyOps /\ req[t].pc = "await"
                      /\ req'[t].pc = "done" /\ req'[t].status = 200]_vars

C20_Witness ==
    \E t \in Tasks :
        /\ req[t].op = "main_get_move" /\ req[t].pc = "done" /\ req[t].calls = 1
        /\ req[t].answer.kind = "raise" /\ req[t].answer.cls = "AuthenticationError"
        /\ Truthy(main_api_key) /\ main_api_key = req[t].client_key

\* C21: a move request that issues its provider call built the client, in
\* the step in which it found the store non-empty, with the credential the
\* store held in that step, and no commit took effect within the step;
\* while the call is in flight and when it completes, the credential of its
\* client stays what it was, whatever set_api_key calls commit meanwhile
C21_CredentialStable ==
    [][\A t \in Tasks :
          /\ (req[t].pc = "idle" /\ req'[t].op \in MoveOps /\ req'[t].pc = "await")
                => /\ Truthy(StoreOf(req'[t].op))
                   /\ req'[t].client_key = StoreOf(req'[t].op)
                   /\ config_api_key' = config_api_key
                   /\ main_api_key' = main_api_key
          /\ (req[t].op \in MoveOps /\ req[t].pc = "await" /\ req'[t] # IdleReq)
                => req'[t].client_key = req[t].client_key]_vars

C21_Witness ==
    \E t1, t2 \in Tasks :
        /\ req[t1].op = "main_get_move" /\ req[t1].pc = "await" /\ req[t1].calls = 1
        /\ req[t2].op = "main_set_api_key" /\ req[t2].pc = "done" /\ req[t2].status = 200
        /\ main_api_key = req[t2].api_key
        /\ req[t1].client_key # main_api_key

====
